---- MODULE Spec2Model ----
(***************************************************************************)
(* Model of the "push project to gitbutler" watcher handler:               *)
(*   gitbutler-app/src/watcher/handlers/push_project_to_gitbutler.rs       *)
(*                                                                         *)
(* A Handler wraps its HandlerInner in Arc<Mutex<..>>.  handle() takes the *)
(* mutex with try_lock and runs the sync body, or returns Ok(vec![]) when  *)
(* the mutex is held.  The body reads the project and the default target,  *)
(* pushes the target in batches through refs/push-tmp/<project>, pushes    *)
(* refs/<project>, mirrors all references and records the push state.      *)
(*                                                                         *)
(* Option<T> values are modelled as sets with at most one element.         *)
(***************************************************************************)
EXTENDS Integers, Sequences, FiniteSets, TLC

VARIABLES
    repo,        \* per project, the commit graph of its local repository
    batch_size,  \* HandlerInner.batch_size
    locked,      \* Handler.inner: is the tokio Mutex held
    pc,          \* per caller: position inside handle()
    frame,       \* per caller: locals of the running (or last) handle() call
    project,     \* project store: per project, the persisted Project
    target,      \* gb_repository default target per project (Option<Oid>)
    refs,        \* local references per project
    remote,      \* the gitbutler server: per project, reference -> Option<Oid>
    now,         \* the last value read from the system clock
    interrupted, \* history: per project, the targets of syncs cut short in push_target
    settled,     \* history: per project, has a sync completed with nothing changed since
    plan         \* planner specification: inputs and result of one batch_rev_walk call

vars == <<repo, batch_size, locked, pc, frame, project, target, refs, remote, now,
          interrupted, settled, plan>>

----------------------------------------------------------------------------
(* Bounds *)

MaxBatch == 2
MaxTime == 1
MaxChain == 10
LinearLen == 3
PlanMaxBatch == 4

Callers == {"c1", "c2"}
Projects == {"p1", "p2"}

----------------------------------------------------------------------------
(* Commit graphs.  A graph is a sequence of parent sets: commit i has
   parents graph[i].  MergeGraph:

        1 -- 2 -- 4
         \       /
          3 -----                                                          *)

MergeGraph == << {}, {1}, {1}, {2, 3} >>

Chain(n) == [i \in 1..n |-> IF i = 1 THEN {} ELSE {i - 1}]

CommitsOf(g) == DOMAIN g

RECURSIVE AncClosure(_, _)
AncClosure(g, S) ==
    LET more == S \cup UNION {g[c] : c \in S}
    IN  IF more = S THEN S ELSE AncClosure(g, more)

\* c and every commit reachable from c through parent links
Ancestors(g, c) == AncClosure(g, {c})

IsAncestorOrEqual(g, a, d) == a \in Ancestors(g, d)

----------------------------------------------------------------------------
(* Repository::revwalk with push(from) and hide(until): the commits reachable
   from `from` that are neither `until` nor an ancestor of it, most recent
   first.  The order among unrelated commits depends on commit times, so the
   walk is any order that starts at `from` and yields a commit only after
   one of its children.                                                    *)

Visible(g, from, until) ==
    Ancestors(g, from) \ UNION {Ancestors(g, u) : u \in until}

RECURSIVE WalkFrom(_, _, _)
WalkFrom(g, vis, seq) ==
    LET emitted == {seq[i] : i \in 1..Len(seq)}
        ready == {c \in vis \ emitted : \E d \in emitted : c \in g[d]}
    IN  IF ready = {} THEN {seq}
        ELSE UNION {WalkFrom(g, vis, Append(seq, c)) : c \in ready}

RevWalk(g, from, until) ==
    LET vis == Visible(g, from, until)
    IN  IF from \in vis THEN WalkFrom(g, vis, <<from>>) ELSE {<<>>}

\* only the full groups of n items: a shorter last group is dropped
ChunksExact(walk, n) ==
    [k \in 1..(Len(walk) \div n) |-> SubSeq(walk, (k - 1) * n + 1, k * n)]

\* groups of one item each, whatever n is
ChunksSingle(walk, n) == [k \in 1..Len(walk) |-> <<walk[k]>>]

\* itertools chunks(n): consecutive groups of n items, the last one shorter
Chunks(walk, n) ==
    [k \in 1..((Len(walk) + n - 1) \div n) |->
        SubSeq(walk, (k - 1) * n + 1,
               IF k * n < Len(walk) THEN k * n ELSE Len(walk))]

Last(s) == s[Len(s)]

\* a loop that takes the first oid of each chunk
RECURSIVE BatchLoopFirst(_, _, _, _)
BatchLoopFirst(chunks, k, from, oids) ==
    IF k > Len(chunks) THEN oids
    ELSE LET oid == chunks[k][1]
         IN  BatchLoopFirst(chunks, k + 1, from,
                            IF oid # from THEN Append(oids, oid) ELSE oids)

\* the loop of batch_rev_walk over the chunks k..: push the last oid of each
\* chunk unless it is `from`
RECURSIVE BatchLoop(_, _, _, _)
BatchLoop(chunks, k, from, oids) ==
    IF k > Len(chunks) THEN oids
    ELSE LET oid == Last(chunks[k])
         IN  BatchLoop(chunks, k + 1, from,
                       IF oid # from THEN Append(oids, oid) ELSE oids)

Reverse(s) == [i \in 1..Len(s) |-> s[Len(s) + 1 - i]]

\* the checkpoints collected oldest first
BatchOidsOldestFirst(walk, n, from) ==
    Reverse(BatchLoop(Chunks(walk, n), 1, from, <<from>>))

\* the last oid of every chunk, also when it is `from`
BatchOidsKeepFrom(walk, n, from) ==
    <<from>> \o [k \in 1..Len(Chunks(walk, n)) |-> Last(Chunks(walk, n)[k])]

BatchOids(walk, n, from) == BatchLoop(Chunks(walk, n), 1, from, <<from>>)

\* a walk that does not hide `until`
batch_rev_walk_no_hide(g, n, from, until) ==
    {BatchOids(walk, n, from) : walk \in RevWalk(g, from, {})}

\* a walk that starts at `until` and hides `from`
batch_rev_walk_swapped(g, n, from, until) ==
    IF until = {} THEN {BatchOids(walk, n, from) : walk \in RevWalk(g, from, until)}
    ELSE {BatchOids(walk, n, from) :
            walk \in UNION {RevWalk(g, u, {from}) : u \in until}}

\* batch_rev_walk: the Ok results it can return, one per traversal order
batch_rev_walk(g, n, from, until) ==
    {BatchOids(walk, n, from) : walk \in RevWalk(g, from, until)}

----------------------------------------------------------------------------
(* The local repositories, their references and the remote *)

\* the commits the default target of a project is set to; p2 is a project
\* whose default target has not been established
Heads(p) == IF p = "p1" THEN CommitsOf(repo[p]) \ {1} ELSE {}

Local(o) == [kind |-> "Local", name |-> <<"refs", "heads", "a">>, oid |-> o]
Remote(o) == [kind |-> "Remote", name |-> <<"refs", "remotes", "b">>, oid |-> o]
Virtual(o) == [kind |-> "Virtual", name |-> <<"refs", "gitbutler", "c">>, oid |-> o]
Other(o) == [kind |-> "Other", name |-> <<"refs", "tags", "d">>, oid |-> o]

RefNames == {Local(1).name, Remote(1).name, Virtual(1).name, Other(1).name}

\* "+<id>:refs/push-tmp/<project_id>" and "+<sha>:refs/<project_id>"
TmpRef(p) == <<"refs", "push-tmp", p>>
TargetRef(p) == <<"refs", p>>

\* a refspec "+<src>:<dst>"; the source is an oid or a local reference name
OidSpec(oid, dst) == [force |-> TRUE, src |-> [oid |-> oid], dst |-> dst]
RefSpec(name, dst) == [force |-> TRUE, src |-> [ref |-> name], dst |-> dst]

\* the commit a refspec source names in the local repository
Resolve(local_refs, src) ==
    IF "oid" \in DOMAIN src THEN {src.oid}
    ELSE {r.oid : r \in {x \in local_refs : x.name = src.ref}}

RemoteRefNames(p) == {TmpRef(p), TargetRef(p)} \cup RefNames

\* push_to_gitbutler_server: a successful push makes every destination
\* reference of the request point at the commit of its source
PushToServer(rem, local_refs, specs) ==
    [n \in DOMAIN rem |->
        IF \E s \in specs : s.dst = n
        THEN UNION {Resolve(local_refs, s.src) : s \in {t \in specs : t.dst = n}}
        ELSE rem[n]]

PushOutcomes == {"Ok", "Network", "Other"}

----------------------------------------------------------------------------
(* Frames of handle() calls *)

IdleFrame ==
    [project_id |-> "", ran |-> FALSE, gb_code_last_commit |-> {},
     default_target |-> {}, ids |-> <<>>, idx |-> 0, log |-> <<>>,
     result |-> "none", failed |-> {}, start_remote |-> <<>>, was_settled |-> FALSE,
     was_interrupted |-> FALSE]

BodyPcs == {"body", "push_target", "loop_push", "loop_update", "target_ref",
            "push_all_refs", "final_update"}

BatchPcs == {"push_target", "loop_push", "loop_update", "target_ref"}

Logged(c, op, oid) == Append(frame[c].log, [op |-> op, oid |-> oid])

\* a return that keeps the MutexGuard
ReturnHolding(c, result, at, kind) ==
    /\ pc' = [pc EXCEPT ![c] = "returned"]
    /\ frame' = [frame EXCEPT ![c].result = result,
                              ![c].failed = IF at = "" THEN {}
                                            ELSE {[at |-> at, kind |-> kind]}]
    /\ locked' = locked

\* a return of the body: the MutexGuard is dropped, the gate is free again
Return(c, result, at, kind) ==
    /\ pc' = [pc EXCEPT ![c] = "returned"]
    /\ frame' = [frame EXCEPT ![c].result = result,
                              ![c].failed = IF at = "" THEN {}
                                            ELSE {[at |-> at, kind |-> kind]}]
    /\ locked' = FALSE

\* "the sync of p for its current target was cut short inside push_target"
CutShort(c) ==
    [interrupted EXCEPT ![frame[c].project_id] =
        @ \/ frame[c].default_target = target[frame[c].project_id]]

----------------------------------------------------------------------------
(* Handler::handle *)

\* a gate that lets every caller in
TryLockAlways == TRUE

\* self.inner.try_lock() succeeds iff the mutex is free
TryLock == ~locked

\* A call that takes the gate starts a new body; the results of the calls
\* that returned before it have been taken by their callers.
Handle(c, p) ==
    /\ pc[c] \in {"idle", "returned"}
    /\ IF TryLock
       THEN /\ locked' = TRUE
            /\ pc' = [d \in Callers |->
                        IF d = c THEN "body"
                        ELSE IF pc[d] = "returned" THEN "idle" ELSE pc[d]]
            /\ frame' = [d \in Callers |->
                        IF d = c
                        THEN [IdleFrame EXCEPT !.project_id = p, !.ran = TRUE]
                        ELSE IF pc[d] = "returned" THEN IdleFrame ELSE frame[d]]
       ELSE /\ locked' = locked
            /\ pc' = [pc EXCEPT ![c] = "returned"]
            /\ frame' = [frame EXCEPT ![c] =
                            [IdleFrame EXCEPT !.project_id = p, !.result = "ok"]]
    /\ UNCHANGED <<repo, batch_size, project, target, refs, remote, now, interrupted,
                   settled, plan>>

----------------------------------------------------------------------------
(* HandlerInner::handle *)

SetupSteps == {"get_project", "get_user", "open_repository", "open_gb_repository",
               "default_target"}

\* a handler without the early exit
early_exit_never(prj) == FALSE

\* if !project.is_sync_enabled() || !project.has_code_url() { return Ok(vec![]); }
early_exit(prj) == ~prj.sync_enabled \/ ~prj.has_code_url

\* no fast path: the target is pushed on every call
target_changed_always(gb_code_last_commit, sha) == TRUE

\* !gb_code_last_commit.map(|id| id == default_target.sha).unwrap_or_default()
target_changed(gb_code_last_commit, sha) ==
    ~(\E id \in gb_code_last_commit : id = sha)

\* a missing Network arm: every failure of a push is an error of handle()
RemoteErrorAlwaysErr(kind) == "err"

\* a catch-all arm: every failure of a push is swallowed
RemoteErrorAlwaysOk(kind) == "ok"

\* the match on the result of push_target and of push_all_refs:
\*   Err(RemoteError::Network) => return Ok(vec![]),
\*   Err(err) => return Err(err).context("failed to push")
OnRemoteError(kind) == IF kind = "Network" THEN "ok" ELSE "err"

\* time::SystemTime::now(): the clock never runs backwards
SystemTimeNow == now..MaxTime

\* a write that records the default target whatever checkpoint was pushed
update_project_target(p, id) ==
    \E t \in SystemTimeNow :
        /\ project' = [project EXCEPT ![p].gitbutler_code_push_state =
                                        {[id |-> CHOOSE sha \in target[p] : TRUE,
                                          timestamp |-> t]}]
        /\ now' = t

\* project_store.update(.. gitbutler_code_push_state:
\*     Some(CodePushState { id, timestamp: SystemTime::now() }) ..)
update_project(p, id) ==
    \E t \in SystemTimeNow :
        /\ project' = [project EXCEPT ![p].gitbutler_code_push_state =
                                        {[id |-> id, timestamp |-> t]}]
        /\ now' = t

\* the head of the body: load the project, check it, read the push state and
\* the default target, decide whether the target has to be pushed
Body(c) ==
    LET p == frame[c].project_id
        last == {s.id : s \in project[p].gitbutler_code_push_state}
    IN
    /\ pc[c] = "body"
    /\ \E fail \in SetupSteps \cup {"none"} :
        IF fail = "get_project"
        THEN Return(c, "err", fail, "Other")
        ELSE IF early_exit(project[p])
        THEN Return(c, "ok", "", "")
        ELSE IF fail # "none"
        THEN Return(c, "err", fail, "Other")
        ELSE IF target[p] = {}
        THEN Return(c, "err", "no_default_target", "Other")
        ELSE /\ frame' = [frame EXCEPT
                    ![c].gb_code_last_commit = last,
                    ![c].default_target = target[p],
                    ![c].start_remote = remote[p],
                    ![c].was_settled = settled[p],
                    ![c].was_interrupted = interrupted[p]]
             /\ pc' = [pc EXCEPT ![c] =
                    IF \E sha \in target[p] : target_changed(last, sha)
                    THEN "push_target" ELSE "push_all_refs"]
             /\ locked' = locked
    /\ UNCHANGED <<repo, batch_size, project, target, refs, remote, now, interrupted,
                   settled, plan>>

\* push_target, up to the loop: compute the checkpoints
PushTarget(c) ==
    LET p == frame[c].project_id IN
    /\ pc[c] = "push_target"
    /\ \/ \E sha \in frame[c].default_target :
          \E ids \in batch_rev_walk(repo[p], batch_size, sha,
                                    frame[c].gb_code_last_commit) :
            /\ frame' = [frame EXCEPT ![c].ids = ids, ![c].idx = Len(ids)]
            /\ pc' = [pc EXCEPT ![c] = "loop_push"]
            /\ locked' = locked
       \/ Return(c, OnRemoteError("Other"), "batch_rev_walk", "Other")
    /\ UNCHANGED <<repo, batch_size, project, target, refs, remote, now, interrupted,
                   settled, plan>>

\* the loop body, first half: push ids[idx] to refs/push-tmp/<project>
LoopPush(c) ==
    LET p == frame[c].project_id
        id == frame[c].ids[frame[c].idx]
    IN
    /\ pc[c] = "loop_push"
    /\ \E out \in PushOutcomes :
        CASE out = "Ok" ->
                /\ remote' = [remote EXCEPT ![p] =
                        PushToServer(@, refs[p], {OidSpec(id, TmpRef(p))})]
                /\ frame' = [frame EXCEPT ![c].log = Logged(c, "push_tmp", id)]
                /\ pc' = [pc EXCEPT ![c] = "loop_update"]
                /\ UNCHANGED <<locked, interrupted>>
          [] out = "Network" ->
                /\ Return(c, OnRemoteError(out), "push_tmp", out)
                /\ interrupted' = CutShort(c)
                /\ UNCHANGED remote
          [] OTHER ->
                /\ Return(c, OnRemoteError(out), "push_tmp", out)
                /\ UNCHANGED <<remote, interrupted>>
    /\ UNCHANGED <<repo, batch_size, project, target, refs, now, settled, plan>>

\* the loop body, second half: record ids[idx] as pushed
LoopUpdate(c) ==
    LET p == frame[c].project_id
        id == frame[c].ids[frame[c].idx]
    IN
    /\ pc[c] = "loop_update"
    /\ \/ /\ update_project(p, id)
          /\ frame' = [frame EXCEPT ![c].log = Logged(c, "update", id),
                                    ![c].idx = @ - 1]
          /\ pc' = [pc EXCEPT ![c] =
                        IF frame[c].idx = 1 THEN "target_ref" ELSE "loop_push"]
          /\ locked' = locked
       \/ /\ Return(c, OnRemoteError("Other"), "loop_update", "Other")
          /\ UNCHANGED <<project, now>>
    /\ UNCHANGED <<repo, batch_size, target, refs, remote, interrupted, settled, plan>>

\* after the loop: push the target to refs/<project>
TargetRefPush(c) ==
    LET p == frame[c].project_id IN
    /\ pc[c] = "target_ref"
    /\ \E sha \in frame[c].default_target : \E out \in PushOutcomes :
        CASE out = "Ok" ->
                /\ remote' = [remote EXCEPT ![p] =
                        PushToServer(@, refs[p], {OidSpec(sha, TargetRef(p))})]
                /\ frame' = [frame EXCEPT ![c].log = Logged(c, "push_target", sha)]
                /\ pc' = [pc EXCEPT ![c] = "push_all_refs"]
                /\ UNCHANGED <<locked, interrupted>>
          [] out = "Network" ->
                /\ Return(c, OnRemoteError(out), "push_target", out)
                /\ interrupted' = CutShort(c)
                /\ UNCHANGED remote
          [] OTHER ->
                /\ Return(c, OnRemoteError(out), "push_target", out)
                /\ UNCHANGED <<remote, interrupted>>
    /\ UNCHANGED <<repo, batch_size, project, target, refs, now, settled, plan>>

\* a mirror push without the filter on the kind of the reference
all_refs_unfiltered(gb_references) ==
    {RefSpec(r.name, r.name) : r \in gb_references}

\* the refspecs push_all_refs builds from the collected references
all_refs(gb_references) ==
    {RefSpec(r.name, r.name) :
        r \in {x \in gb_references : x.kind \in {"Remote", "Virtual", "Local"}}}

\* push_all_refs: collect the references, push the mirrored ones in one request
PushAllRefs(c) ==
    LET p == frame[c].project_id IN
    /\ pc[c] = "push_all_refs"
    /\ \/ /\ Return(c, OnRemoteError("Other"), "collect_refs", "Other")
          /\ UNCHANGED remote
       \/ \E out \in PushOutcomes :
            CASE out = "Ok" ->
                    /\ remote' = [remote EXCEPT ![p] =
                            PushToServer(@, refs[p], all_refs(refs[p]))]
                    /\ frame' = [frame EXCEPT ![c].log =
                            Logged(c, "push_refs", all_refs(refs[p]))]
                    /\ pc' = [pc EXCEPT ![c] = "final_update"]
                    /\ locked' = locked
              [] OTHER ->
                    /\ Return(c, OnRemoteError(out), "push_refs", out)
                    /\ UNCHANGED remote
    /\ UNCHANGED <<repo, batch_size, project, target, refs, now, interrupted, settled, plan>>

\* a handler that returns Ok(vec![]) after the mirror push without the write
FinalUpdateSkipped(c) ==
    /\ pc[c] = "final_update"
    /\ Return(c, "ok", "", "")
    /\ UNCHANGED <<repo, batch_size, project, target, refs, remote, now, interrupted,
                   settled, plan>>

\* "make sure last push time is updated", then Ok(vec![])
FinalUpdate(c) ==
    LET p == frame[c].project_id IN
    /\ pc[c] = "final_update"
    /\ \/ \E sha \in frame[c].default_target :
            /\ update_project(p, sha)
            /\ pc' = [pc EXCEPT ![c] = "returned"]
            /\ frame' = [frame EXCEPT ![c].result = "ok",
                                      ![c].log = Logged(c, "update", sha)]
            /\ locked' = FALSE
            /\ settled' = [settled EXCEPT ![p] = (frame[c].default_target = target[p])]
       \/ /\ Return(c, "err", "final_update", "Other")
          /\ UNCHANGED <<project, now, settled>>
    /\ UNCHANGED <<repo, batch_size, target, refs, remote, interrupted, plan>>

----------------------------------------------------------------------------
(* The environment *)

\* the process is torn down: running calls vanish, persisted state stays
Teardown ==
    /\ \E c \in Callers : pc[c] # "idle"
    /\ pc' = [c \in Callers |-> "idle"]
    /\ frame' = [c \in Callers |-> IdleFrame]
    /\ locked' = FALSE
    /\ interrupted' = [p \in Projects |->
            interrupted[p] \/ \E c \in Callers :
                /\ pc[c] \in BatchPcs
                /\ frame[c].project_id = p
                /\ frame[c].default_target = target[p]]
    /\ UNCHANGED <<repo, batch_size, project, target, refs, remote, now, settled, plan>>

\* The default target of a project is established or moves.  A call reads
\* the target once, in the head of its body, and never again: a move while a
\* call is past that read, or after it returned, has the effect of the same
\* move just before the next read, so the target moves only while every call
\* is before its read.
SetTarget(p, t) ==
    /\ target[p] # {t}
    /\ \A c \in Callers : pc[c] \in {"idle", "body"}
    /\ target' = [target EXCEPT ![p] = {t}]
    /\ settled' = [settled EXCEPT ![p] = FALSE]
    /\ interrupted' = [interrupted EXCEPT ![p] = FALSE]
    /\ UNCHANGED <<repo, batch_size, locked, pc, frame, project, refs, remote, now, plan>>

----------------------------------------------------------------------------
(* The specification of the handler *)

NoPlan == [g |-> <<>>, from |-> 0, until |-> {}, walk |-> <<>>, ids |-> <<>>,
           done |-> FALSE]

InitRefs(p) ==
    IF p = "p1" THEN {Local(4), Remote(3), Virtual(2), Other(1)}
    ELSE {Local(1), Other(1)}

Init ==
    /\ repo = [p \in Projects |-> IF p = "p1" THEN MergeGraph ELSE Chain(1)]
    /\ batch_size \in 1..MaxBatch
    /\ locked = FALSE
    /\ pc = [c \in Callers |-> "idle"]
    /\ frame = [c \in Callers |-> IdleFrame]
    /\ project \in [Projects -> [sync_enabled : BOOLEAN, has_code_url : BOOLEAN,
                                 gitbutler_code_push_state : {{}}]]
    /\ project["p2"].sync_enabled /\ project["p2"].has_code_url
    /\ target = [p \in Projects |-> {}]
    /\ refs = [p \in Projects |-> InitRefs(p)]
    /\ remote = [p \in Projects |-> [n \in RemoteRefNames(p) |-> {}]]
    /\ now = 0
    /\ interrupted = [p \in Projects |-> FALSE]
    /\ settled = [p \in Projects |-> FALSE]
    /\ plan = NoPlan

Next ==
    \/ \E c \in Callers, p \in Projects : Handle(c, p)
    \/ \E c \in Callers : Body(c)
    \/ \E c \in Callers : PushTarget(c)
    \/ \E c \in Callers : LoopPush(c)
    \/ \E c \in Callers : LoopUpdate(c)
    \/ \E c \in Callers : TargetRefPush(c)
    \/ \E c \in Callers : PushAllRefs(c)
    \/ \E c \in Callers : FinalUpdate(c)
    \/ Teardown
    \/ \E p \in Projects : \E t \in Heads(p) : SetTarget(p, t)

Spec == Init /\ [][Next]_vars

\* the same handler on a project whose history is one line of commits
LinearInit ==
    /\ repo = [p \in Projects |-> IF p = "p1" THEN Chain(LinearLen) ELSE Chain(1)]
    /\ batch_size \in 1..MaxBatch
    /\ locked = FALSE
    /\ pc = [c \in Callers |-> "idle"]
    /\ frame = [c \in Callers |-> IdleFrame]
    /\ project = [p \in Projects |-> [sync_enabled |-> TRUE, has_code_url |-> TRUE,
                                      gitbutler_code_push_state |-> {}]]
    /\ target = [p \in Projects |-> {}]
    /\ refs = [p \in Projects |-> InitRefs(p)]
    /\ remote = [p \in Projects |-> [n \in RemoteRefNames(p) |-> {}]]
    /\ now = 0
    /\ interrupted = [p \in Projects |-> FALSE]
    /\ settled = [p \in Projects |-> FALSE]
    /\ plan = NoPlan

LinearSpec == LinearInit /\ [][Next]_vars

----------------------------------------------------------------------------
(* The planner on its own: one call of batch_rev_walk on drawn inputs *)

PlanGraphs == {Chain(n) : n \in 1..MaxChain} \cup {MergeGraph}

PlanInputs ==
    UNION {[g : {g}, from : CommitsOf(g),
            until : {{}} \cup {{u} : u \in CommitsOf(g)},
            walk : {<<>>}, ids : {<<>>}, done : {FALSE}] : g \in PlanGraphs}

PlanInit ==
    /\ repo = [p \in Projects |-> Chain(1)]
    /\ batch_size \in 1..PlanMaxBatch
    /\ plan \in PlanInputs
    /\ locked = FALSE
    /\ pc = [c \in Callers |-> "idle"]
    /\ frame = [c \in Callers |-> IdleFrame]
    /\ project = [p \in Projects |-> [sync_enabled |-> TRUE, has_code_url |-> TRUE,
                                      gitbutler_code_push_state |-> {}]]
    /\ target = [p \in Projects |-> {}]
    /\ refs = [p \in Projects |-> InitRefs(p)]
    /\ remote = [p \in Projects |-> [n \in RemoteRefNames(p) |-> {}]]
    /\ now = 0
    /\ interrupted = [p \in Projects |-> FALSE]
    /\ settled = [p \in Projects |-> FALSE]

PlanRun ==
    /\ ~plan.done
    /\ \E ids \in batch_rev_walk(plan.g, batch_size, plan.from, plan.until) :
            plan' = [plan EXCEPT !.ids = ids, !.done = TRUE]
    /\ UNCHANGED <<repo, batch_size, locked, pc, frame, project, target, refs, remote, now,
                   interrupted, settled>>

PlanNext == PlanRun

PlanSpec == PlanInit /\ [][PlanNext]_vars

----------------------------------------------------------------------------
(* Helpers of the properties *)

Running == {c \in Callers : pc[c] \in BodyPcs}

LogOps(c, op) == {i \in 1..Len(frame[c].log) : frame[c].log[i].op = op}

LogOids(c, op) == {frame[c].log[i].oid : i \in LogOps(c, op)}

PushStateId(p) == {s.id : s \in project[p].gitbutler_code_push_state}

\* the step of a handle() call that finds the gate held
Dropped(c) ==
    /\ <<pc[c], frame[c]>> # <<pc'[c], frame'[c]>>
    /\ pc'[c] = "returned"
    /\ ~frame'[c].ran

----------------------------------------------------------------------------
(* C1: single-flight.  At most one handle() call is inside the sync body at
   any time, and the gate is held while it is; a call that finds the gate
   held returns Ok(vec![]) in that very step, without a push and without a
   read or write of the project store or the remote.                       *)

C1_OneBody ==
    /\ Cardinality(Running) <= 1
    /\ Running # {} => locked
    /\ \A c \in Callers :
        (pc[c] = "returned" /\ ~frame[c].ran) =>
            /\ frame[c].result = "ok"
            /\ frame[c].log = <<>>
            /\ frame[c].failed = {}

C1_SingleFlight ==
    /\ []C1_OneBody
    /\ [][\A c \in Callers :
            Dropped(c) => /\ locked
                          /\ UNCHANGED <<project, remote, target, now, locked>>]_vars

\* a call for p2 was dropped while a call for p1 is past its first push
C1_Witness ==
    /\ pc["c1"] = "loop_update" /\ frame["c1"].project_id = "p1"
    /\ pc["c2"] = "returned" /\ ~frame["c2"].ran /\ frame["c2"].project_id = "p2"

----------------------------------------------------------------------------
(* Helpers on the log of a call *)

ProjectOf(c) == frame[c].project_id

Sha(c) == CHOOSE sha \in frame[c].default_target : TRUE

\* the calls that read a default target, i.e. got past the head of the body
Synced(c) == frame[c].ran /\ frame[c].default_target # {}

\* the calls that ran push_target as far as the loop
Batched(c) == Synced(c) /\ frame[c].ids # <<>>

LogEntry(op, oid) == [op |-> op, oid |-> oid]

\* what the loop logs for the checkpoints ids[n], ids[n-1], .., ids[1]
RECURSIVE LoopLog(_, _)
LoopLog(ids, n) ==
    IF n = 0 THEN <<>>
    ELSE <<LogEntry("push_tmp", ids[n]), LogEntry("update", ids[n])>>
            \o LoopLog(ids, n - 1)

\* the log of a call of p that runs to its end without a failure
FullLog(c) ==
    LET ids == frame[c].ids
        batch == IF ids = <<>> THEN <<>>
                 ELSE LoopLog(ids, Len(ids)) \o <<LogEntry("push_target", Sha(c))>>
    IN  batch \o <<LogEntry("push_refs", all_refs(refs[ProjectOf(c)])),
                   LogEntry("update", Sha(c))>>

IsPrefix(s, t) == Len(s) <= Len(t) /\ s = SubSeq(t, 1, Len(s))

\* the push state the log of c leaves: its last update, else the state read
LeftBy(c) ==
    IF LogOps(c, "update") = {} THEN frame[c].gb_code_last_commit
    ELSE {frame[c].log[CHOOSE i \in LogOps(c, "update") :
                            \A j \in LogOps(c, "update") : j <= i].oid}

Failed(c, ats, kind) ==
    /\ pc[c] = "returned"
    /\ \E f \in frame[c].failed : f.at \in ats /\ f.kind = kind

\* a call that ran the mirror push and the final update
Completed(c) ==
    /\ pc[c] = "returned" /\ Synced(c)
    /\ frame[c].result = "ok" /\ frame[c].failed = {}
    /\ LogOps(c, "push_refs") # {}

----------------------------------------------------------------------------
(* C2: ordering.  The loop pushes the checkpoints cn, .., c1, c0 in this
   order and records progress after each; the push state becomes the target
   c0 only after the push of the target to refs/<project> has succeeded.   *)

C2_Ordering ==
    \A c \in Callers : Batched(c) =>
        /\ IsPrefix(frame[c].log, FullLog(c))
        /\ \A i \in LogOps(c, "update") :
            frame[c].log[i].oid = Sha(c) =>
                \E j \in LogOps(c, "push_target") : j < i

\* the part of C2 the code keeps: the order of the pushes and of the writes
C2_LoopOrder ==
    \A c \in Callers : Batched(c) => IsPrefix(frame[c].log, FullLog(c))

----------------------------------------------------------------------------
(* C3: resume after interruption.  When a sync of a project was cut short in
   the batch-push phase (a Network failure of a push, or a teardown), a later
   call for the same project and the same default target that runs to its
   end without a failure leaves refs/<project> on the remote at the target. *)

C3_Resume ==
    \A c \in Callers :
        (Completed(c) /\ frame[c].was_interrupted) =>
            remote[ProjectOf(c)][TargetRef(ProjectOf(c))] = frame[c].default_target

----------------------------------------------------------------------------
(* C4: network transparency.  A Network failure of a push of the batch-push
   phase (to refs/push-tmp/<project> or to refs/<project>) makes handle()
   return Ok(vec![]).  The call stops at that push: its log holds the pushes
   and writes of the checkpoints before the failed one and nothing else (no
   write for the failed checkpoint, no mirror push, no final write), and the
   push state is the last checkpoint written, or the one read at the start. *)

\* the number of checkpoints the loop has finished when idx is the next one
Finished(c) == Len(frame[c].ids) - frame[c].idx

C4_NetworkTransparency ==
    \A c \in Callers :
        Failed(c, {"push_tmp", "push_target"}, "Network") =>
            /\ frame[c].result = "ok"
            /\ frame[c].log = SubSeq(FullLog(c), 1, 2 * Finished(c))
            /\ LogOps(c, "push_refs") = {}
            /\ PushStateId(ProjectOf(c)) = LeftBy(c)
            /\ PushStateId(ProjectOf(c)) =
                    IF Finished(c) = 0 THEN frame[c].gb_code_last_commit
                    ELSE {frame[c].ids[frame[c].idx + 1]}

\* the push of the second checkpoint failed after the first was recorded
C4_Witness ==
    \E c \in Callers :
        /\ Failed(c, {"push_tmp"}, "Network")
        /\ Finished(c) = 1
        /\ Len(frame[c].ids) = 3

----------------------------------------------------------------------------
(* C5: fatal failures.  A failure other than Network in the batch-push phase
   or the mirror phase (a rejected push, a failed traversal, a failed write
   of the push state) makes handle() return an error.  The call stops at
   that step, with no further push or write, and nothing is rolled back:
   the push state is the last checkpoint written.                          *)

FatalSteps == {"batch_rev_walk", "push_tmp", "loop_update", "push_target",
               "collect_refs", "push_refs", "final_update"}

\* how many entries a call has logged when it fails at a step
LoggedBefore(c, at) ==
    CASE at = "batch_rev_walk" -> 0
      [] at = "push_tmp" -> 2 * Finished(c)
      [] at = "loop_update" -> 2 * Finished(c) + 1
      [] at = "push_target" -> 2 * Len(frame[c].ids)
      [] at \in {"collect_refs", "push_refs"} -> Len(FullLog(c)) - 2
      [] at = "final_update" -> Len(FullLog(c)) - 1

C5_FatalFailures ==
    \A c \in Callers : \A at \in FatalSteps :
        Failed(c, {at}, "Other") =>
            /\ frame[c].result = "err"
            /\ frame[c].log = SubSeq(FullLog(c), 1, LoggedBefore(c, at))
            /\ PushStateId(ProjectOf(c)) = LeftBy(c)

\* the write of the second checkpoint failed after the first was recorded
C5_Witness ==
    \E c \in Callers :
        /\ Failed(c, {"loop_update"}, "Other")
        /\ Finished(c) = 1
        /\ PushStateId(ProjectOf(c)) = {frame[c].ids[Len(frame[c].ids)]}

----------------------------------------------------------------------------
(* C6: idempotence.  A call that follows a call of the same project that ran
   to its end without a failure, with the default target and the local
   references unchanged in between, pushes nothing to refs/push-tmp/<project>
   or refs/<project>, leaves every reference of the remote as it was, and
   writes the push state only with the commit it already holds.            *)

----------------------------------------------------------------------------
(* C7: the push state never regresses.  Every commit written to the push
   state is a descendant of, or equal to, the commit it replaces: within one
   sync and across handle() calls, for every graph and traversal order.    *)

C7_NeverRegresses ==
    [][\A p \in Projects : \A a \in PushStateId(p) : \A b \in PushStateId(p)' :
            IsAncestorOrEqual(repo[p], a, b)]_vars

\* no commit reachable from c is a merge
NoMerge(g, c) == \A a \in Ancestors(g, c) : Cardinality(g[a]) <= 1

\* the commits a call has written, in the order of the writes
Written(c) ==
    LET RECURSIVE Ups(_)
        Ups(i) == IF i > Len(frame[c].log) THEN <<>>
                  ELSE IF frame[c].log[i].op = "update"
                       THEN <<frame[c].log[i].oid>> \o Ups(i + 1)
                       ELSE Ups(i + 1)
    IN  Ups(1)

(* C7 as amended: in a sync whose target has a history without merges and is
   a descendant of, or equal to, the checkpoint persisted at the start (if
   any), every commit written is a descendant of, or equal to, that
   checkpoint and the commit written before it, and it is the push state.  *)

C7_LinearNeverRegresses ==
    \A c \in Callers :
        (/\ Synced(c)
         /\ NoMerge(repo[ProjectOf(c)], Sha(c))
         /\ frame[c].gb_code_last_commit \subseteq Ancestors(repo[ProjectOf(c)], Sha(c)))
        => LET w == Written(c) IN
            /\ \A i \in 1..Len(w) :
                /\ \A s \in frame[c].gb_code_last_commit :
                        IsAncestorOrEqual(repo[ProjectOf(c)], s, w[i])
                /\ i > 1 => IsAncestorOrEqual(repo[ProjectOf(c)], w[i - 1], w[i])
            /\ PushStateId(ProjectOf(c)) = LeftBy(c)

\* a sync of commit 3 that resumed behind commit 1 and wrote 2, then 3
C7_Witness ==
    \E c \in Callers :
        /\ Completed(c)
        /\ frame[c].gb_code_last_commit = {1}
        /\ Written(c) = <<2, 3, 3>>

----------------------------------------------------------------------------
(* C8: every commit a sync writes to the push state is the default target it
   read at its start or an ancestor of it; every checkpoint of the planner's
   list is the target or reachable from it, the list starts with the target,
   and the final write uses the target.                                    *)

C8_WritesReachTarget ==
    \A c \in Callers : Synced(c) =>
        LET anc == Ancestors(repo[ProjectOf(c)], Sha(c)) IN
        /\ \A i \in 1..Len(frame[c].ids) : frame[c].ids[i] \in anc
        /\ frame[c].ids # <<>> => frame[c].ids[1] = Sha(c)
        /\ LogOids(c, "update") \subseteq anc
        /\ \A i \in LogOps(c, "update") :
            (\E j \in LogOps(c, "push_refs") : j < i) => frame[c].log[i].oid = Sha(c)

\* a sync of the merge commit that ran to its end through three checkpoints
C8_Witness ==
    \E c \in Callers :
        /\ Completed(c)
        /\ Sha(c) = 4
        /\ Len(frame[c].ids) >= 3

----------------------------------------------------------------------------
(* C9: resumability.  When the persisted checkpoint C is a strict ancestor
   of the target, no checkpoint of the planner's list is C or an ancestor of
   C, and no such commit is pushed to refs/push-tmp/<project> again.       *)

C9_Resumability ==
    \A c \in Callers : Synced(c) =>
        \A C \in frame[c].gb_code_last_commit :
            (C # Sha(c) /\ IsAncestorOrEqual(repo[ProjectOf(c)], C, Sha(c))) =>
                LET behind == Ancestors(repo[ProjectOf(c)], C) IN
                /\ \A i \in 1..Len(frame[c].ids) : frame[c].ids[i] \notin behind
                /\ LogOids(c, "push_tmp") \cap behind = {}

\* a sync of the merge commit that resumed behind commit 2 and pushed twice
C9_Witness ==
    \E c \in Callers :
        /\ Synced(c)
        /\ frame[c].gb_code_last_commit = {2}
        /\ Sha(c) = 4
        /\ Cardinality(LogOps(c, "push_tmp")) >= 2

----------------------------------------------------------------------------
(* C10: batch sizing, exact count.  With batch size B and a traversal of
   exactly 2.5 * B commits of a linear history (batch size 1000 and 2500
   commits), the planner produces exactly 3 checkpoints.                   *)

PlanTraversed == Visible(plan.g, plan.from, plan.until)

\* the planner ran on a linear history with a traversal of 2.5 batches
TwoAndAHalfBatches ==
    /\ plan.done
    /\ NoMerge(plan.g, plan.from)
    /\ 2 * Cardinality(PlanTraversed) = 5 * batch_size

C10_ThreeCheckpoints ==
    TwoAndAHalfBatches => Len(plan.ids) = 3

(* C10 as amended: it produces exactly 4 checkpoints: the target, the commits
   at depth B and 2 * B of the traversal, and the oldest traversed commit,
   at depth 2.5 * B, which ends the short last group.                      *)

C10_FourCheckpoints ==
    TwoAndAHalfBatches =>
        \A walk \in RevWalk(plan.g, plan.from, plan.until) :
            plan.ids = <<plan.from, walk[batch_size], walk[2 * batch_size],
                         walk[Len(walk)]>>

\* batch size 4 and a traversal of the whole history of commit 10
C10_Witness ==
    /\ TwoAndAHalfBatches
    /\ batch_size = 4
    /\ plan.from = 10 /\ plan.until = {}
    /\ plan.ids = <<plan.from, plan.from - 3, plan.from - 7, plan.from - 9>>

----------------------------------------------------------------------------
(* C11: batch sizing, upper bound.  For every batch size >= 1 and every
   traversal of h commits (those reachable from the target and not hidden by
   since), the planner returns at least 1 and at most ceil(h / batch size) + 1
   checkpoints.                                                            *)

CeilDiv(a, b) == (a + b - 1) \div b

C11_UpperBound ==
    plan.done =>
        /\ Len(plan.ids) >= 1
        /\ Len(plan.ids) <= CeilDiv(Cardinality(PlanTraversed), batch_size) + 1

\* the bound is met: 7 traversed commits in groups of 3 give 3 + 1 checkpoints
C11_Witness ==
    /\ plan.done
    /\ batch_size = 3
    /\ Cardinality(PlanTraversed) = 7
    /\ plan.until # {}
    /\ Len(plan.ids) = 4

----------------------------------------------------------------------------
(* C12: a missing default target is a no-op.  A handle() call on a project
   with sync enabled and a code URL, whose default target has not been
   established and whose setup steps did not fail, returns Ok(vec![]) and
   performs no push and no write of the push state.                        *)

\* a call that ran its body on a configured project and found no default target
FoundNoTarget(c) ==
    /\ pc[c] = "returned" /\ frame[c].ran
    /\ project[ProjectOf(c)].sync_enabled /\ project[ProjectOf(c)].has_code_url
    /\ target[ProjectOf(c)] = {}
    /\ \A f \in frame[c].failed : f.at \notin SetupSteps

C12_MissingTargetNoOp ==
    \A c \in Callers : FoundNoTarget(c) =>
        /\ frame[c].result = "ok"
        /\ frame[c].log = <<>>
        /\ PushStateId(ProjectOf(c)) = {}

\* the part of C12 the code keeps: no push and no write of the push state
C12_MissingTargetNoEffect ==
    \A c \in Callers : FoundNoTarget(c) =>
        /\ frame[c].log = <<>>
        /\ remote[ProjectOf(c)] = [n \in RemoteRefNames(ProjectOf(c)) |-> {}]
        /\ PushStateId(ProjectOf(c)) = {}

----------------------------------------------------------------------------
(* C13: a disabled or unconfigured project is a no-op.  When the project has
   sync disabled or has no code URL (and was loaded), handle() returns
   Ok(vec![]) and leaves everything unchanged: no repository is opened, no
   push to refs/push-tmp/<project>, refs/<project> or the mirrored references
   is issued, and the push state (commit and timestamp) is not written.    *)

Unconfigured(p) == ~project[p].sync_enabled \/ ~project[p].has_code_url

\* The settings of a project do not change, so "unchanged" is "as initially":
\* no push state (commit and timestamp) and no reference on the remote.
C13_DisabledNoOp ==
    /\ \A p \in Projects : Unconfigured(p) =>
        /\ project[p].gitbutler_code_push_state = {}
        /\ remote[p] = [n \in RemoteRefNames(p) |-> {}]
    /\ \A c \in Callers :
        (/\ pc[c] = "returned" /\ frame[c].ran
         /\ Unconfigured(ProjectOf(c))
         /\ \A f \in frame[c].failed : f.at # "get_project")
        => /\ frame[c].result = "ok"
           /\ frame[c].failed = {}
           /\ frame[c].log = <<>>
           /\ frame[c].default_target = {}
           /\ frame[c].ids = <<>>

\* the body of a call returned early: sync is enabled and the default target
\* is established, the code URL is missing
C13_Witness ==
    \E c \in Callers :
        /\ pc[c] = "returned" /\ frame[c].ran /\ frame[c].result = "ok"
        /\ ProjectOf(c) = "p1"
        /\ project["p1"].sync_enabled /\ ~project["p1"].has_code_url
        /\ target["p1"] # {}

----------------------------------------------------------------------------
(* C14: end-to-end short sync.  For a project whose persisted push state is
   C0 and whose target is C5, where the traversal from C5 that excludes C0
   and its ancestors holds exactly one commit (C5), the checkpoint list is
   [C5] and the batch-push phase performs, in this order, exactly one push
   of C5 to refs/push-tmp/<project>, one write of C5 to the push state and
   one push of C5 to refs/<project>.                                       *)

\* a call that planned its checkpoints for a traversal of one commit
ShortSync(c) ==
    /\ Batched(c)
    /\ frame[c].gb_code_last_commit # {}
    /\ Cardinality(Visible(repo[ProjectOf(c)], Sha(c),
                           frame[c].gb_code_last_commit)) = 1

\* the entries a call logged in its batch-push phase: those before the
\* mirror push
BatchPhaseLog(c) ==
    LET mirror == LogOps(c, "push_refs")
        first == IF mirror = {} THEN Len(frame[c].log) + 1
                 ELSE CHOOSE i \in mirror : \A j \in mirror : i <= j
    IN  SubSeq(frame[c].log, 1, first - 1)

ShortSyncLog(c) ==
    << [op |-> "push_tmp", oid |-> Sha(c)],
       [op |-> "update", oid |-> Sha(c)],
       [op |-> "push_target", oid |-> Sha(c)] >>

C14_ShortSync ==
    \A c \in Callers : ShortSync(c) =>
        /\ frame[c].ids = <<Sha(c)>>
        /\ IsPrefix(BatchPhaseLog(c), ShortSyncLog(c))
        /\ (pc[c] \in {"push_all_refs", "final_update"} \/ Completed(c))
                => BatchPhaseLog(c) = ShortSyncLog(c)
        /\ LogOps(c, "push_tmp") \cup LogOps(c, "push_target") \subseteq {1, 3}

\* the sync of commit 2 behind push state 1, with batches of 2, ran to its end
C14_Witness ==
    \E c \in Callers :
        /\ ShortSync(c) /\ Completed(c)
        /\ batch_size = 2
        /\ frame[c].gb_code_last_commit = {1} /\ Sha(c) = 2
        /\ remote[ProjectOf(c)][TmpRef(ProjectOf(c))] = {2}
        /\ remote[ProjectOf(c)][TargetRef(ProjectOf(c))] = {2}

----------------------------------------------------------------------------
(* C15: mirror completeness.  The mirror phase issues exactly one push
   request; its refspecs are the force-update mapping "+r:r" for every local
   reference r of kind Local, Remote or Virtual and for no reference of
   another kind.  For the references {Local/a, Remote/b, Virtual/c, Other/d}
   the request contains a, b and c and not d.                              *)

MirroredKinds == {"Local", "Remote", "Virtual"}

\* the request is what the claim says, for the references of the project
MirrorRequestOf(p, specs) ==
    /\ \A s \in specs : s.force /\ DOMAIN s.src = {"ref"} /\ s.src.ref = s.dst
    /\ {s.dst : s \in specs} =
            {r.name : r \in {x \in refs[p] : x.kind \in MirroredKinds}}
    /\ Cardinality(specs) = Cardinality({s.dst : s \in specs})

C15_MirrorCompleteness ==
    \A c \in Callers : Synced(c) =>
        LET p == ProjectOf(c) IN
        /\ Cardinality(LogOps(c, "push_refs")) <= 1
        /\ pc[c] = "final_update" \/ Completed(c)
                => Cardinality(LogOps(c, "push_refs")) = 1
        /\ \A i \in LogOps(c, "push_refs") :
            /\ MirrorRequestOf(p, frame[c].log[i].oid)
            /\ p = "p1" => {s.dst : s \in frame[c].log[i].oid} =
                    {<<"refs", "heads", "a">>, <<"refs", "remotes", "b">>,
                     <<"refs", "gitbutler", "c">>}
            /\ \A r \in refs[p] :
                remote[p][r.name] = IF r.kind \in MirroredKinds THEN {r.oid} ELSE {}

\* a call mirrored Local/a, Remote/b and Virtual/c of p1, Other/d is not on
\* the remote
C15_Witness ==
    \E c \in Callers :
        /\ Completed(c) /\ ProjectOf(c) = "p1"
        /\ refs["p1"] = {Local(4), Remote(3), Virtual(2), Other(1)}
        /\ remote["p1"][<<"refs", "heads", "a">>] = {4}
        /\ remote["p1"][<<"refs", "remotes", "b">>] = {3}
        /\ remote["p1"][<<"refs", "gitbutler", "c">>] = {2}
        /\ remote["p1"][<<"refs", "tags", "d">>] = {}

----------------------------------------------------------------------------
(* C16: checkpoint list shape.  For every target, optional since and batch
   size >= 1 the planner's result has the target at index 0; the rest are,
   in traversal order, the last commit of each consecutive group of batch
   size commits of the traversal (the last group may be shorter), without
   the boundaries equal to the target.  The target occurs exactly once; an
   empty traversal or a traversal of the target alone gives [target]; a
   traversal of k commits with 1 < k <= batch size gives [target, oldest
   traversed commit].                                                      *)

\* the list the claim describes for one traversal order
ShapeOf(walk, n, from) ==
    LET h == Len(walk)
        groups == CeilDiv(h, n)
        boundary == [k \in 1..groups |-> walk[IF k * n < h THEN k * n ELSE h]]
        NotTarget(x) == x # from
    IN  <<from>> \o SelectSeq(boundary, NotTarget)

C16_ListShape ==
    plan.done =>
        \E walk \in RevWalk(plan.g, plan.from, plan.until) :
            LET h == Len(walk) IN
            /\ plan.ids = ShapeOf(walk, batch_size, plan.from)
            /\ plan.ids[1] = plan.from
            /\ Cardinality({i \in 1..Len(plan.ids) : plan.ids[i] = plan.from}) = 1
            /\ h <= 1 => plan.ids = <<plan.from>>
            /\ (1 < h /\ h <= batch_size) => plan.ids = <<plan.from, walk[h]>>

\* the merge graph from commit 4 in groups of 2: the boundaries 3 and 1
C16_Witness ==
    /\ plan.done
    /\ plan.g = MergeGraph /\ plan.from = 4 /\ plan.until = {}
    /\ batch_size = 2
    /\ plan.ids = <<4, 3, 1>>

----------------------------------------------------------------------------
(* C17: persisted progress is backed by the remote.  Whenever the engine
   writes a commit C to the push state, a push of C to
   refs/push-tmp/<project> or to refs/<project> has already succeeded: at
   the moment of a write that changes the commit, one of these references
   of the remote points at C, and in the log of every call each write of C
   comes after a successful push of C by that call, unless C is the commit
   the push state held when the call started.                              *)

PushOps == {"push_tmp", "push_target"}

\* every write a call has logged is backed by an earlier push of that call
C17_WritesFollowPushes ==
    \A c \in Callers : Synced(c) =>
        \A i \in LogOps(c, "update") :
            \/ \E j \in 1..(i - 1) :
                /\ frame[c].log[j].op \in PushOps
                /\ frame[c].log[j].oid = frame[c].log[i].oid
            \/ frame[c].gb_code_last_commit = {frame[c].log[i].oid}

\* a step that changes the commit of the push state
C17_WriteStep ==
    \A p \in Projects :
        PushStateId(p)' # PushStateId(p) =>
            /\ \E C \in CommitsOf(repo[p]) :
                /\ PushStateId(p)' = {C}
                /\ \/ remote[p][TmpRef(p)] = {C}
                   \/ remote[p][TargetRef(p)] = {C}
            /\ remote' = remote

C17_BackedByRemote == []C17_WritesFollowPushes /\ [][C17_WriteStep]_vars

\* a checkpoint behind the target is the push state, refs/push-tmp points at
\* it and refs/<project> has not been pushed yet
C17_Witness ==
    \E c \in Callers :
        /\ pc[c] = "loop_push" /\ ProjectOf(c) = "p1"
        /\ PushStateId("p1") # {} /\ PushStateId("p1") # frame[c].default_target
        /\ PushStateId("p1") = remote["p1"][TmpRef("p1")]
        /\ remote["p1"][TargetRef("p1")] = {}
        /\ LogOps(c, "update") # {}

----------------------------------------------------------------------------
(* C18: final progress write.  Whenever handle() gets through the batch-push
   phase (or skips it) and the mirror phase without a failure, it writes the
   push state with the default target read at its start and a fresh
   timestamp, also when there were no new commits; this write comes only
   after the mirror push succeeded; and after a successful handle() that ran
   its body the push state holds that default target.                      *)

\* a call that returned Ok(vec![]) after it read a default target
ReturnedOk(c) == pc[c] = "returned" /\ Synced(c) /\ frame[c].result = "ok"

\* the claim as stated: every handle() that ran its body and returned success
C18_FinalWriteOnSuccess ==
    \A c \in Callers : ReturnedOk(c) =>
        PushStateId(ProjectOf(c)) = frame[c].default_target

\* the writes of a call that come after its mirror push
AfterMirror(c) ==
    {i \in LogOps(c, "update") : \E j \in LogOps(c, "push_refs") : j < i}

(* C18 as amended: the last clause holds for a handle() that ran its body to
   the end without a failure; a handle() that returned success after a
   swallowed Network failure has not written the default target.           *)

C18_FinalWrite ==
    \A c \in Callers : Synced(c) =>
        LET p == ProjectOf(c)
            n == Len(frame[c].log)
        IN
        /\ pc[c] = "final_update" =>
                /\ frame[c].log[n].op = "push_refs"
                /\ frame[c].ids = <<>> \/ frame[c].log[n - 1].op = "push_target"
                /\ AfterMirror(c) = {}
        /\ \A i \in AfterMirror(c) :
                /\ i = n
                /\ frame[c].log[i] = [op |-> "update", oid |-> Sha(c)]
                /\ frame[c].log[i - 1].op = "push_refs"
        /\ (ReturnedOk(c) /\ frame[c].failed = {}) =>
                /\ AfterMirror(c) = {n}
                /\ project[p].gitbutler_code_push_state =
                        {[id |-> Sha(c), timestamp |-> now]}
        /\ \A s \in project[p].gitbutler_code_push_state : s.timestamp <= now

\* after a completed sync, a call that skipped the batch-push phase mirrored
\* the references and wrote the target again with the latest clock reading
C18_Witness ==
    \E c \in Callers :
        /\ ReturnedOk(c) /\ frame[c].failed = {}
        /\ frame[c].ids = <<>>
        /\ frame[c].was_settled
        /\ Len(frame[c].log) = 2
        /\ project[ProjectOf(c)].gitbutler_code_push_state =
                {[id |-> Sha(c), timestamp |-> MaxTime]}

----------------------------------------------------------------------------
(* C19: the mirror phase and its Network failure.  After a batch-push phase
   that succeeded or was skipped, handle() always goes on to the mirror
   phase and issues the mirror push (unless collecting the references
   fails).  When that push fails with a Network failure, handle() returns
   Ok(vec![]), the final write is not performed, and the push state (commit
   and timestamp) is exactly as the batch-push phase left it.              *)

\* the batch-push phase of a call succeeded or was skipped
BatchPhaseOver(c) ==
    /\ Synced(c)
    /\ \/ LogOps(c, "push_target") # {}
       \/ frame[c].ids = <<>> /\ pc[c] # "push_target"
                              /\ \A f \in frame[c].failed : f.at # "batch_rev_walk"

MirrorSteps == {"collect_refs", "push_refs"}

C19_MirrorEntered ==
    \A c \in Callers : BatchPhaseOver(c) =>
        /\ \/ pc[c] = "push_all_refs"
           \/ LogOps(c, "push_refs") # {}
           \/ Failed(c, MirrorSteps, "Network")
           \/ Failed(c, MirrorSteps, "Other")
        /\ Failed(c, {"push_refs"}, "Network") =>
                /\ frame[c].result = "ok"
                /\ LogOps(c, "push_refs") = {}
                /\ frame[c].log = BatchPhaseLog(c)
                /\ PushStateId(ProjectOf(c)) = LeftBy(c)

\* the step in which the mirror push fails with a Network failure
C19_MirrorNetworkStep ==
    \A c \in Callers :
        (/\ pc[c] = "push_all_refs" /\ pc'[c] = "returned"
         /\ \E f \in frame'[c].failed : f.at = "push_refs" /\ f.kind = "Network")
        => /\ frame'[c].result = "ok"
           /\ frame'[c].log = frame[c].log
           /\ UNCHANGED <<project, now, remote>>
           /\ ~locked'

C19_MirrorNetworkFailure == []C19_MirrorEntered /\ [][C19_MirrorNetworkStep]_vars

\* the mirror push failed with a Network failure after a batch-push phase of
\* two checkpoints; the push state is the target, written by that phase
C19_Witness ==
    \E c \in Callers :
        /\ Failed(c, {"push_refs"}, "Network")
        /\ Len(frame[c].ids) = 2
        /\ Len(frame[c].log) = 5
        /\ PushStateId(ProjectOf(c)) = frame[c].default_target
        /\ frame[c].gb_code_last_commit # frame[c].default_target

----------------------------------------------------------------------------
(* C20: gate release.  The gate is held exactly while one handle() body
   runs and is released on every way out of it: success, early exit,
   swallowed Network failure, propagated error.  A handle() call is dropped
   only while the body of another call runs, so a call made after every
   earlier call has returned takes the gate and runs its body.             *)

C20_HeldWhileRunning ==
    /\ locked <=> Running # {}
    /\ \A c \in Callers :
        (pc[c] = "returned" /\ frame[c].ran) =>
            (locked <=> \E d \in Callers \ {c} : pc[d] \in BodyPcs)

C20_Acquire ==
    \A c \in Callers :
        /\ Dropped(c) => \E d \in Callers \ {c} : pc[d] \in BodyPcs
        /\ (pc[c] \notin BodyPcs /\ pc'[c] = "body") =>
                /\ ~locked /\ locked'
                /\ Running = {}
                /\ frame'[c].ran

C20_GateRelease == []C20_HeldWhileRunning /\ [][C20_Acquire]_vars

\* a call returned an error from the loop and the gate is free
C20_Witness ==
    \E c \in Callers :
        /\ Failed(c, {"push_tmp", "loop_update"}, "Other")
        /\ frame[c].result = "err"
        /\ LogOps(c, "update") # {}
        /\ ~locked

====
